---- MODULE Spec2Model ----
(***************************************************************************)
(* Planora: the habit store (convex/habits.ts), the event store            *)
(* (convex/events.ts), the planning page (app/dashboard/plan/page.tsx),    *)
(* the chat route (app/api/chat/route.ts) and the users and                *)
(* planningSessions tables (convex/planning.ts).                           *)
(*                                                                         *)
(* A Convex mutation is one serializable transaction: its handler runs     *)
(* to the end and commits, or throws and leaves the store untouched. Each  *)
(* mutation is therefore one action.                                       *)
(***************************************************************************)
EXTENDS Integers, Sequences, FiniteSets, Bags, TLC

VARIABLES
    habits,        \* table "habits": habit id -> document
    habitLogs,     \* table "habitLogs": a bag of documents (the table has no uniqueness constraint)
    nextHabitId,   \* the next id ctx.db.insert("habits") hands out; ids are never reused
    today,         \* the server clock, in days
    lastOp,        \* the last mutation that ran, its arguments and whether it committed
    messages,          \* plan page: the transcript
    isLoading,         \* plan page: a model call or a confirm is outstanding
    parsedSchedule,    \* plan page: <<>> (null) or <<events>>, the proposed schedule
    scheduleConfirmed, \* plan page: the schedule was saved
    convexUserId,      \* plan page: the user id, once syncUser has returned
    call,              \* plan page: the outstanding handleSubmit / handleConfirmSchedule and its closure
    calendarEvents,    \* table "calendarEvents", in insertion order
    turns,             \* number of submits so far
    confirms,          \* number of confirms so far
    lastStep,          \* plan page: the last handler step that ran
    chat,              \* chat route: the last request POST handled and what it did
    users,             \* table "users": user id -> document
    nextUserId,        \* the next id ctx.db.insert("users") hands out
    sessions,          \* table "planningSessions": session id -> document
    nextSessionId,     \* the next id ctx.db.insert("planningSessions") hands out
    lastCall           \* the last users / planningSessions / calendarEvents mutation that ran

habitVars == <<habits, habitLogs, nextHabitId, today, lastOp>>
planVars == <<messages, isLoading, parsedSchedule, scheduleConfirmed, convexUserId,
              call, calendarEvents, turns, confirms, lastStep>>
backVars == <<chat, users, nextUserId, sessions, nextSessionId, lastCall>>
vars == <<habits, habitLogs, nextHabitId, today, lastOp,
          messages, isLoading, parsedSchedule, scheduleConfirmed, convexUserId,
          call, calendarEvents, turns, confirms, lastStep,
          chat, users, nextUserId, sessions, nextSessionId, lastCall>>

----------------------------------------------------------------------------
(* Bounds *)

MaxHabits == 2
MaxDay == 2
MaxLogs == 3

\* the signed-in user of the habits page
PageUsers == {"u1"}
Undefined == "<undefined>"
Null == "<null>"
NotesArgs == {Undefined, "note"}

----------------------------------------------------------------------------
(* Dates.  The clock is a day number; a stored date is the YYYY-MM-DD      *)
(* string, modelled as <<year, month, day>>.  Day 0 is 2024-01-30, so the  *)
(* days of the model cross a month boundary.                               *)

\* new Date(...).toISOString().split('T')[0]
FormatDate(n) ==
    IF n + 30 >= 1 /\ n + 30 <= 31 THEN <<2024, 1, n + 30>>
    ELSE IF n + 30 > 31 THEN <<2024, 2, n + 30 - 31>>
    ELSE <<2023, 12, n + 30 + 31>>

Dates == {FormatDate(n) : n \in 0..MaxDay}

\* a.localeCompare(b) < 0 on YYYY-MM-DD strings: field by field, left to right
DateLess(a, b) ==
    \/ a[1] < b[1]
    \/ a[1] = b[1] /\ a[2] < b[2]
    \/ a[1] = b[1] /\ a[2] = b[2] /\ a[3] < b[3]

----------------------------------------------------------------------------
(* The habit store *)

\* .query("habitLogs").withIndex("by_habit_and_date", q => q.eq("habitId", h)).collect()
LogsOfHabit(logs, h) == {l \in BagToSet(logs) : l.habitId = h}

\* ... q.eq("habitId", h).eq("date", d)
LogsOfHabitDate(logs, h, d) == {l \in BagToSet(logs) : l.habitId = h /\ l.date = d}

\* number of documents of the table for (h, d)
LogCount(logs, h, d) ==
    LET S == LogsOfHabitDate(logs, h, d)
        RECURSIVE Sum(_)
        Sum(T) == IF T = {} THEN 0
                  ELSE LET x == CHOOSE y \in T : TRUE
                       IN CopiesIn(x, logs) + Sum(T \ {x})
    IN Sum(S)

\* logs.sort((a, b) => b.date.localeCompare(a.date)): most recent first
RECURSIVE SortDesc(_)
SortDesc(S) ==
    IF S = {} THEN <<>>
    ELSE LET top == CHOOSE l \in S : \A m \in S : ~DateLess(l.date, m.date)
         IN <<top>> \o SortDesc(S \ {top})

\* the for loop of updateStreak: walk the sorted logs from checkDate backwards
RECURSIVE StreakWalk(_, _, _, _)
StreakWalk(logs, i, checkDate, currentStreak) ==
    IF i > Len(logs) THEN currentStreak
    ELSE LET log == logs[i]
             expectedDate == FormatDate(checkDate)
         IN IF log.date = expectedDate /\ log.completed
               THEN StreakWalk(logs, i + 1, checkDate - 1, currentStreak + 1)
            ELSE currentStreak

\* a recompute that leaves the logs dated after day out of the walk
ComputeStreakSkippingFuture(logs, h, day) ==
    StreakWalk(SortDesc({l \in LogsOfHabit(logs, h) : ~DateLess(FormatDate(day), l.date)}),
               1, day, 0)

\* the streak updateStreak computes for habit h on day day
ComputeStreak(logs, h, day) == StreakWalk(SortDesc(LogsOfHabit(logs, h)), 1, day, 0)

\* a recompute that forgets Math.max
StreakPatchNoMax(habit, currentStreak) ==
    [habit EXCEPT !.currentStreak = currentStreak]

\* a recompute that sets bestStreak to the current streak
StreakPatchReset(habit, currentStreak) ==
    [habit EXCEPT !.currentStreak = currentStreak, !.bestStreak = currentStreak]

\* const bestStreak = Math.max(habit.bestStreak, currentStreak); ctx.db.patch(...)
StreakPatch(habit, currentStreak) ==
    [habit EXCEPT !.currentStreak = currentStreak,
                  !.bestStreak = IF habit.bestStreak >= currentStreak
                                    THEN habit.bestStreak ELSE currentStreak]

\* a recompute that counts up from the stored streak instead of replaying the logs
updateStreakIncremental(hs, logs, h, day) ==
    IF h \notin DOMAIN hs THEN hs
    ELSE LET done == \E l \in LogsOfHabit(logs, h) : l.date = FormatDate(day) /\ l.completed
         IN [hs EXCEPT ![h] = StreakPatch(hs[h], IF done THEN hs[h].currentStreak + 1 ELSE 0)]

\* updateStreak(ctx, habitId): the habits table after the recompute
updateStreak(hs, logs, h, day) ==
    IF h \notin DOMAIN hs THEN hs
    ELSE [hs EXCEPT ![h] = StreakPatch(hs[h], ComputeStreak(logs, h, day))]

\* an upsert that always inserts
UpsertLogAlwaysInsert(logs, h, u, d, completed, notes) ==
    logs (+) SetToBag({[habitId |-> h, userId |-> u, date |-> d,
                        completed |-> completed, notes |-> notes]})

\* logHabitCompletion: patch the existing log of (h, d), or insert one
UpsertLog(logs, h, u, d, completed, notes) ==
    LET found == LogsOfHabitDate(logs, h, d)
    IN IF found # {}
          THEN LET existingLog == CHOOSE l \in found : TRUE
               IN (logs (-) SetToBag({existingLog}))
                  (+) SetToBag({[existingLog EXCEPT !.completed = completed, !.notes = notes]})
       ELSE logs (+) SetToBag({[habitId |-> h, userId |-> u, date |-> d,
                                completed |-> completed, notes |-> notes]})

\* a cascade that deletes only the first log it finds
DeleteLogsFirstOnly(logs, h) ==
    IF LogsOfHabit(logs, h) = {} THEN logs
    ELSE logs (-) SetToBag({CHOOSE l \in LogsOfHabit(logs, h) : TRUE})

\* deleteHabit: Promise.all(logs.map(log => ctx.db.delete(log._id)))
DeleteLogs(logs, h) ==
    LET keep == {l \in BagToSet(logs) : l.habitId # h}
    IN [l \in keep |-> logs[l]]

\* lastOp: the mutation that ran last, its arguments, the number of logs its query
\* found, and whether it committed (ok) or threw
NoOp == [op |-> "none", habitId |-> 0, date |-> <<>>, completed |-> FALSE,
         notes |-> Undefined, count |-> 0, ok |-> TRUE]

\* createHabit
createHabit(userId) ==
    /\ nextHabitId <= MaxHabits
    /\ habits' = habits @@ (nextHabitId :> [userId |-> userId, isActive |-> TRUE,
                                            currentStreak |-> 0, bestStreak |-> 0])
    /\ nextHabitId' = nextHabitId + 1
    /\ lastOp' = [NoOp EXCEPT !.op = "createHabit", !.habitId = nextHabitId]
    /\ UNCHANGED <<habitLogs, today>>

\* updateHabit: the optional argument isActive is <<>> (undefined) or <<value>>;
\* cleanUpdates drops it when undefined; ctx.db.patch throws on a document that
\* does not exist
updateHabit(habitId, isActive) ==
    /\ IF habitId \in DOMAIN habits
          THEN /\ habits' = IF isActive = <<>> THEN habits
                            ELSE [habits EXCEPT ![habitId].isActive = isActive[1]]
               /\ lastOp' = [NoOp EXCEPT !.op = "updateHabit", !.habitId = habitId]
       ELSE /\ habits' = habits
            /\ lastOp' = [NoOp EXCEPT !.op = "updateHabit", !.habitId = habitId, !.ok = FALSE]
    /\ UNCHANGED <<habitLogs, nextHabitId, today>>

\* deleteHabit: ctx.db.delete throws on a document that does not exist, and the
\* transaction then keeps the logs
deleteHabit(habitId) ==
    /\ IF habitId \in DOMAIN habits
          THEN /\ habitLogs' = DeleteLogs(habitLogs, habitId)
               /\ habits' = [h \in DOMAIN habits \ {habitId} |-> habits[h]]
               /\ lastOp' = [NoOp EXCEPT !.op = "deleteHabit", !.habitId = habitId,
                                         !.count = Cardinality(LogsOfHabit(habitLogs, habitId))]
       ELSE /\ UNCHANGED <<habitLogs, habits>>
            /\ lastOp' = [NoOp EXCEPT !.op = "deleteHabit", !.habitId = habitId, !.ok = FALSE]
    /\ UNCHANGED <<nextHabitId, today>>

\* a logHabitCompletion that throws when the habit does not exist
logHabitCompletionOfExistingHabit(habitId, userId, date, completed, notes) ==
    LET n == LogCount(habitLogs, habitId, date)
        args == [NoOp EXCEPT !.op = "logHabitCompletion", !.habitId = habitId, !.date = date,
                             !.completed = completed, !.notes = notes, !.count = n]
    IN /\ n > 0 \/ BagCardinality(habitLogs) < MaxLogs
       /\ IF n > 1 \/ habitId \notin DOMAIN habits
             THEN /\ UNCHANGED <<habitLogs, habits>>
                  /\ lastOp' = [args EXCEPT !.ok = FALSE]
          ELSE /\ habitLogs' = UpsertLog(habitLogs, habitId, userId, date, completed, notes)
               /\ habits' = updateStreak(habits, habitLogs', habitId, today)
               /\ lastOp' = args
       /\ UNCHANGED <<nextHabitId, today>>

\* a logHabitCompletion whose recompute reads the logs as they were before its write
logHabitCompletionRecomputingFirst(habitId, userId, date, completed, notes) ==
    LET n == LogCount(habitLogs, habitId, date)
        args == [NoOp EXCEPT !.op = "logHabitCompletion", !.habitId = habitId, !.date = date,
                             !.completed = completed, !.notes = notes, !.count = n]
    IN /\ n > 0 \/ BagCardinality(habitLogs) < MaxLogs
       /\ IF n > 1
             THEN /\ UNCHANGED <<habitLogs, habits>>
                  /\ lastOp' = [args EXCEPT !.ok = FALSE]
          ELSE /\ habitLogs' = UpsertLog(habitLogs, habitId, userId, date, completed, notes)
               /\ habits' = updateStreak(habits, habitLogs, habitId, today)
               /\ lastOp' = args
       /\ UNCHANGED <<nextHabitId, today>>

\* logHabitCompletion: .unique() throws when the index holds more than one log
logHabitCompletion(habitId, userId, date, completed, notes) ==
    LET n == LogCount(habitLogs, habitId, date)
        args == [NoOp EXCEPT !.op = "logHabitCompletion", !.habitId = habitId, !.date = date,
                             !.completed = completed, !.notes = notes, !.count = n]
    IN /\ n > 0 \/ BagCardinality(habitLogs) < MaxLogs
       /\ IF n > 1
             THEN /\ UNCHANGED <<habitLogs, habits>>
                  /\ lastOp' = [args EXCEPT !.ok = FALSE]
          ELSE /\ habitLogs' = UpsertLog(habitLogs, habitId, userId, date, completed, notes)
               /\ habits' = updateStreak(habits, habitLogs', habitId, today)
               /\ lastOp' = args
       /\ UNCHANGED <<nextHabitId, today>>

\* a midnight at which every habit's streak is recomputed
AdvanceDayRecomputing ==
    /\ today < MaxDay
    /\ today' = today + 1
    /\ habits' = [h \in DOMAIN habits |->
                     StreakPatch(habits[h], ComputeStreak(habitLogs, h, today + 1))]
    /\ lastOp' = [NoOp EXCEPT !.op = "advanceDay"]
    /\ UNCHANGED <<habitLogs, nextHabitId>>

\* the clock passes midnight
AdvanceDay ==
    /\ today < MaxDay
    /\ today' = today + 1
    /\ lastOp' = [NoOp EXCEPT !.op = "advanceDay"]
    /\ UNCHANGED <<habits, habitLogs, nextHabitId>>

IssuedHabitIds == 1..(nextHabitId - 1)

----------------------------------------------------------------------------
(* The event store *)

Categories == {"work", "meal", "sleep", "habit", "planning", "personal", "other"}

\* the argument validator of createManyEvents, for one element of args.events
ValidEventArg(e) ==
    /\ e.title # Undefined
    /\ e.category \in Categories
    /\ e.createdBy \in {"ai", "user"}
    /\ e.isRecurring \in BOOLEAN

\* ctx.db.insert("calendarEvents", {...event, userId, completed: false, ...})
InsertedEvent(userId, e) ==
    [userId |-> userId, title |-> e.title, description |-> e.description,
     startTime |-> e.startTime, endTime |-> e.endTime, date |-> e.date,
     category |-> e.category, isRecurring |-> e.isRecurring,
     createdBy |-> e.createdBy, completed |-> FALSE]

RECURSIVE InsertAll(_, _, _)
InsertAll(table, userId, events) ==
    IF events = <<>> THEN table
    ELSE InsertAll(Append(table, InsertedEvent(userId, Head(events))), userId, Tail(events))

\* the longest prefix of the batch whose elements are valid
RECURSIVE ValidPrefix(_)
ValidPrefix(events) ==
    IF events = <<>> \/ ~ValidEventArg(Head(events)) THEN <<>>
    ELSE <<Head(events)>> \o ValidPrefix(Tail(events))

\* a batch insert that keeps what it inserted before it failed
createManyEventsPartial(table, userId, events, serverOk) ==
    IF serverOk /\ \A i \in 1..Len(events) : ValidEventArg(events[i])
       THEN [ok |-> TRUE, table |-> InsertAll(table, userId, events)]
    ELSE [ok |-> FALSE, table |-> InsertAll(table, userId, ValidPrefix(events))]

\* createManyEvents: the arguments are validated, then every event is inserted; a
\* mutation that throws commits nothing.  serverOk: the call reached the store and
\* the store accepted the transaction.
createManyEvents(table, userId, events, serverOk) ==
    IF serverOk /\ \A i \in 1..Len(events) : ValidEventArg(events[i])
       THEN [ok |-> TRUE, table |-> InsertAll(table, userId, events)]
    ELSE [ok |-> FALSE, table |-> table]

----------------------------------------------------------------------------
(* The plan page.  A text (a message's content, a model reply) is a sequence of  *)
(* tokens; a chunk of a stream is a piece of that sequence.                      *)

MaxTurns == 2
MaxConfirms == 2
MaxChunk == 2

\* the three backquotes that open and close a fenced block
FenceOpen == "<fence>json"
FenceClose == "<fence>"

Meditate == [title |-> "Meditate", startTime |-> "07:00", endTime |-> "07:30",
             category |-> "habit", description |-> Undefined]
Standup == [title |-> "Standup+work", startTime |-> "09:00", endTime |-> "17:00",
            category |-> "work", description |-> "daily"]
Walk == [title |-> "Walk", startTime |-> "18:00", endTime |-> "18:30",
         category |-> Undefined, description |-> Undefined]
Gym == [title |-> "Gym", startTime |-> "19:00", endTime |-> "20:00",
        category |-> "exercise", description |-> Undefined]

\* the JSON documents the model may put in a block, and what JSON.parse makes of
\* each: threw (a SyntaxError), or a value that is null or an object, whose
\* events member is absent (<<>>), or present (<<[isArray, items]>>)
JsonThrows == [threw |-> TRUE, isNull |-> FALSE, events |-> <<>>]
JsonNull == [threw |-> FALSE, isNull |-> TRUE, events |-> <<>>]
JsonObject(events) == [threw |-> FALSE, isNull |-> FALSE, events |-> events]

JsonDocs ==
    ("{events:[Meditate,Standup]}" :> JsonObject(<<[isArray |-> TRUE, items |-> <<Meditate, Standup>>]>>))
    @@ ("{events:[Walk]}" :> JsonObject(<<[isArray |-> TRUE, items |-> <<Walk>>]>>))
    @@ ("{events:[Meditate,Gym]}" :> JsonObject(<<[isArray |-> TRUE, items |-> <<Meditate, Gym>>]>>))
    @@ ("{summary:rest}" :> JsonObject(<<>>))
    @@ ("{events:none}" :> JsonObject(<<[isArray |-> FALSE, items |-> <<>>]>>))
    @@ ("null" :> JsonNull)
    @@ ("{events:[Meditate" :> JsonThrows)

\* JSON.parse of the text between the fences: one well-formed document, or a throw
JsonParse(content) ==
    IF Len(content) = 1 /\ content[1] \in DOMAIN JsonDocs THEN JsonDocs[content[1]]
    ELSE JsonThrows

\* assistantMessage.match(/<fence>json\s*([\s\S]*?)\s*<fence>/): the text between the first
\* opening fence and the first run of three backquotes after it (which the opening
\* fence of a later block also is); <<>> when there is no match, else <<content>>
JsonMatch(text) ==
    LET opens == {i \in 1..Len(text) : text[i] = FenceOpen}
    IN IF opens = {} THEN <<>>
       ELSE LET i == CHOOSE x \in opens : \A y \in opens : x <= y
                closes == {j \in (i + 1)..Len(text) : text[j] \in {FenceClose, FenceOpen}}
            IN IF closes = {} THEN <<>>
               ELSE LET j == CHOOSE x \in closes : \A y \in closes : x <= y
                    IN <<SubSeq(text, i + 1, j - 1)>>

\* what the end of handleSubmit's try block finds in the finished reply:
\* "none" (no block), "invalid" (parse threw, or no events array), "events"
Detect(text) ==
    LET m == JsonMatch(text)
    IN IF m = <<>> THEN [outcome |-> "none", events |-> <<>>]
       ELSE LET parsed == JsonParse(m[1])
            IN IF parsed.threw \/ parsed.isNull THEN [outcome |-> "invalid", events |-> <<>>]
               ELSE IF parsed.events # <<>> /\ parsed.events[1].isArray
                       THEN [outcome |-> "events", events |-> parsed.events[1].items]
               ELSE [outcome |-> "invalid", events |-> <<>>]

\* a detection that clears the proposal when the block is invalid
ScheduleAfterReplyClearing(schedule, text) ==
    LET d == Detect(text)
    IN IF d.outcome = "events" THEN <<d.events>>
       ELSE IF d.outcome = "invalid" THEN <<>>
       ELSE schedule

\* parsedSchedule after a finished reply: setParsedSchedule(parsed.events) or untouched
ScheduleAfterReply(schedule, text) ==
    LET d == Detect(text)
    IN IF d.outcome = "events" THEN <<d.events>> ELSE schedule

\* the replies of the model service
Replies ==
    { <<"Sure.">>,
      <<"Here it is:", FenceOpen, "{events:[Meditate,Standup]}", FenceClose>>,
      <<"Here it is:", FenceOpen, "{events:[Walk]}", FenceClose>>,
      <<"Here it is:", FenceOpen, "{events:[Meditate,Gym]}", FenceClose>>,
      <<"Here it is:", FenceOpen, "{events:[Meditate", FenceClose>>,
      <<FenceOpen, "{summary:rest}", FenceClose>>,
      <<FenceOpen, "{events:none}", FenceClose>>,
      <<FenceOpen, "null", FenceClose>> }

\* what the user may have typed, and input.trim()
UserTexts == {"", " ", " plan my day "}
Trim(t) == IF t = " plan my day " THEN "plan my day" ELSE ""

GreetingMessage == [role |-> "assistant", content |-> <<"Hi! I'm here to help you plan">>]
StartOverMessage == [role |-> "assistant", content |-> <<"Let's start fresh!">>]
ChatErrorMessage == [role |-> "assistant", content |-> <<"Sorry, I encountered an error.">>]
SavedMessage == [role |-> "assistant", content |-> <<"Your schedule is saved!">>]
SaveErrorMessage == [role |-> "assistant", content |-> <<"Sorry, I had trouble saving your schedule.">>]

\* format(addDays(new Date(), 1), 'yyyy-MM-dd')
tomorrowDate == FormatDate(today + 1)

\* the template literal ${date}T${time}:00
Timestamp(date, time) == <<date, "T", time, ":00">>

\* event.category || 'other'
CategoryOrOther(category) == IF category \in {Undefined, ""} THEN "other" ELSE category

\* a transform that takes the end time from the start time
ToEventArgSameTimes(event, date) ==
    [title |-> event.title, description |-> event.description,
     startTime |-> Timestamp(date, event.startTime),
     endTime |-> Timestamp(date, event.startTime),
     date |-> date, category |-> CategoryOrOther(event.category),
     isRecurring |-> FALSE, createdBy |-> "ai"]

\* one element of eventsToCreate
ToEventArg(event, date) ==
    [title |-> event.title, description |-> event.description,
     startTime |-> Timestamp(date, event.startTime),
     endTime |-> Timestamp(date, event.endTime),
     date |-> date, category |-> CategoryOrOther(event.category),
     isRecurring |-> FALSE, createdBy |-> "ai"]

\* parsedSchedule.map(...)
EventsToCreate(schedule, date) == [i \in 1..Len(schedule) |-> ToEventArg(schedule[i], date)]

\* the outstanding async handler and what its closure holds
NoCall == [kind |-> "none", phase |-> "", newMessages |-> <<>>, assistantMessage |-> <<>>,
           stream |-> <<>>, proposal |-> <<>>, eventsToCreate |-> <<>>, userId |-> Null,
           body |-> [messages |-> <<>>, habits |-> <<>>, existingEvents |-> <<>>]]

\* getActiveHabits: the ids of the user's habits with isActive
getActiveHabits(userId) ==
    {h \in DOMAIN habits : habits[h].userId = userId /\ habits[h].isActive}

\* what useQuery(api.habits.getActiveHabits, convexUserId ? {...} : 'skip') may hold
\* when a handler reads it: <<>> (undefined: skipped, or not loaded yet) or <<result>>
HabitsQueryResults ==
    IF convexUserId = Null THEN {<<>>}
    ELSE {<<>>, <<getActiveHabits(convexUserId)>>}

\* habits || []
HabitsOrEmpty(q) == IF q = <<>> THEN {} ELSE q[1]

\* the body of the fetch: JSON.stringify({messages: newMessages, habits: habits || []});
\* a member of the body is <<>> (absent) or <<value>>
RequestBody(newMessages, hs) ==
    [messages |-> <<newMessages>>, habits |-> <<hs>>, existingEvents |-> <<>>]

Step(name, outcome) == [step |-> name, outcome |-> outcome]

\* syncUser: getOrCreateUser returned
SyncUser ==
    /\ convexUserId = Null
    /\ convexUserId' = "u1"
    /\ lastStep' = Step("syncUser", "")
    /\ UNCHANGED <<messages, isLoading, parsedSchedule, scheduleConfirmed, call,
                   calendarEvents, turns, confirms>>

\* a handleSubmit that does not look at isLoading
HandleSubmitWhileLoading(text) ==
    /\ ~(Trim(text) = "")
    /\ ~scheduleConfirmed
    /\ turns < MaxTurns
    /\ \E hs \in {HabitsOrEmpty(q) : q \in HabitsQueryResults} :
          LET newMessages == Append(messages, [role |-> "user", content |-> <<Trim(text)>>])
          IN /\ messages' = newMessages
             /\ call' = [NoCall EXCEPT !.kind = "submit", !.phase = "fetch",
                                       !.newMessages = newMessages,
                                       !.body = RequestBody(newMessages, hs)]
    /\ isLoading' = TRUE
    /\ turns' = turns + 1
    /\ lastStep' = Step("submit", "")
    /\ UNCHANGED <<parsedSchedule, scheduleConfirmed, convexUserId, calendarEvents, confirms>>

\* handleSubmit up to the fetch: the form is disabled while loading or confirmed
HandleSubmit(text) ==
    /\ ~(Trim(text) = "" \/ isLoading)
    /\ ~scheduleConfirmed
    /\ turns < MaxTurns
    /\ \E hs \in {HabitsOrEmpty(q) : q \in HabitsQueryResults} :
          LET newMessages == Append(messages, [role |-> "user", content |-> <<Trim(text)>>])
          IN /\ messages' = newMessages
             /\ call' = [NoCall EXCEPT !.kind = "submit", !.phase = "fetch",
                                       !.newMessages = newMessages,
                                       !.body = RequestBody(newMessages, hs)]
    /\ isLoading' = TRUE
    /\ turns' = turns + 1
    /\ lastStep' = Step("submit", "")
    /\ UNCHANGED <<parsedSchedule, scheduleConfirmed, convexUserId, calendarEvents, confirms>>

\* handleSubmit invoked with an empty input, or while isLoading: it returns at once
HandleSubmitReturns(text) ==
    /\ Trim(text) = "" \/ isLoading
    /\ lastStep' = Step("submit", IF isLoading THEN "loading" ELSE "empty")
    /\ UNCHANGED <<messages, isLoading, parsedSchedule, scheduleConfirmed, convexUserId,
                   call, calendarEvents, turns, confirms>>

\* the response arrived with response.ok: the empty assistant message is shown
ResponseOk(reply) ==
    /\ call.kind = "submit" /\ call.phase = "fetch"
    /\ messages' = Append(call.newMessages, [role |-> "assistant", content |-> <<>>])
    /\ call' = [call EXCEPT !.phase = "stream", !.stream = reply]
    /\ lastStep' = Step("response", "")
    /\ UNCHANGED <<isLoading, parsedSchedule, scheduleConfirmed, convexUserId,
                   calendarEvents, turns, confirms>>

\* reader.read() returned a chunk of n tokens
StreamChunk(n) ==
    /\ call.kind = "submit" /\ call.phase = "stream"
    /\ n >= 1 /\ n <= Len(call.stream)
    /\ LET assistantMessage == call.assistantMessage \o SubSeq(call.stream, 1, n)
       IN /\ messages' = Append(call.newMessages,
                                [role |-> "assistant", content |-> assistantMessage])
          /\ call' = [call EXCEPT !.assistantMessage = assistantMessage,
                                  !.stream = SubSeq(call.stream, n + 1, Len(call.stream))]
    /\ lastStep' = Step("chunk", "")
    /\ UNCHANGED <<isLoading, parsedSchedule, scheduleConfirmed, convexUserId,
                   calendarEvents, turns, confirms>>

\* reader.read() returned done: the schedule detection, then finally
StreamDone ==
    /\ call.kind = "submit" /\ call.phase = "stream" /\ call.stream = <<>>
    /\ parsedSchedule' = ScheduleAfterReply(parsedSchedule, call.assistantMessage)
    /\ isLoading' = FALSE
    /\ call' = NoCall
    /\ lastStep' = Step("done", Detect(call.assistantMessage).outcome)
    /\ UNCHANGED <<messages, scheduleConfirmed, convexUserId, calendarEvents, turns, confirms>>

\* a catch that appends the apology to the transcript on screen
ChatErrorAppending ==
    /\ call.kind = "submit"
    /\ messages' = Append(messages, ChatErrorMessage)
    /\ isLoading' = FALSE
    /\ call' = NoCall
    /\ lastStep' = Step("chatError", call.phase)
    /\ UNCHANGED <<parsedSchedule, scheduleConfirmed, convexUserId, calendarEvents,
                   turns, confirms>>

\* fetch rejected, !response.ok, or reader.read() rejected: catch, then finally
ChatError ==
    /\ call.kind = "submit"
    /\ messages' = Append(call.newMessages, ChatErrorMessage)
    /\ isLoading' = FALSE
    /\ call' = NoCall
    /\ lastStep' = Step("chatError", call.phase)
    /\ UNCHANGED <<parsedSchedule, scheduleConfirmed, convexUserId, calendarEvents,
                   turns, confirms>>

\* a confirm button that is rendered for a confirmed schedule too
HandleConfirmScheduleWhenConfirmed ==
    /\ parsedSchedule # <<>> /\ ~isLoading
    /\ ~(parsedSchedule = <<>> \/ convexUserId = Null)
    /\ confirms < MaxConfirms
    /\ isLoading' = TRUE
    /\ call' = [NoCall EXCEPT !.kind = "confirm", !.proposal = parsedSchedule[1],
                              !.eventsToCreate = EventsToCreate(parsedSchedule[1], tomorrowDate),
                              !.userId = convexUserId]
    /\ confirms' = confirms + 1
    /\ lastStep' = Step("confirm", "")
    /\ UNCHANGED <<messages, parsedSchedule, scheduleConfirmed, convexUserId,
                   calendarEvents, turns>>

\* handleConfirmSchedule up to the mutation: the button is rendered for an
\* unconfirmed proposal and disabled while loading
HandleConfirmSchedule ==
    /\ parsedSchedule # <<>> /\ ~scheduleConfirmed /\ ~isLoading
    /\ ~(parsedSchedule = <<>> \/ convexUserId = Null)
    /\ confirms < MaxConfirms
    /\ isLoading' = TRUE
    /\ call' = [NoCall EXCEPT !.kind = "confirm", !.proposal = parsedSchedule[1],
                              !.eventsToCreate = EventsToCreate(parsedSchedule[1], tomorrowDate),
                              !.userId = convexUserId]
    /\ confirms' = confirms + 1
    /\ lastStep' = Step("confirm", "")
    /\ UNCHANGED <<messages, parsedSchedule, scheduleConfirmed, convexUserId,
                   calendarEvents, turns>>

\* a confirm without the finally block: isLoading is cleared on success only
ConfirmSettledWithoutFinally(serverOk) ==
    /\ call.kind = "confirm"
    /\ LET r == createManyEvents(calendarEvents, call.userId, call.eventsToCreate, serverOk)
       IN /\ calendarEvents' = r.table
          /\ IF r.ok
                THEN /\ scheduleConfirmed' = TRUE
                     /\ messages' = Append(messages, SavedMessage)
                     /\ lastStep' = Step("confirmSettled", "saved")
                     /\ isLoading' = FALSE
             ELSE /\ scheduleConfirmed' = scheduleConfirmed
                  /\ messages' = Append(messages, SaveErrorMessage)
                  /\ lastStep' = Step("confirmSettled", "failed")
                  /\ isLoading' = isLoading
    /\ call' = NoCall
    /\ UNCHANGED <<parsedSchedule, convexUserId, turns, confirms>>

\* the createManyEvents call settled: the rest of the try block, or the catch
ConfirmSettled(serverOk) ==
    /\ call.kind = "confirm"
    /\ LET r == createManyEvents(calendarEvents, call.userId, call.eventsToCreate, serverOk)
       IN /\ calendarEvents' = r.table
          /\ IF r.ok
                THEN /\ scheduleConfirmed' = TRUE
                     /\ messages' = Append(messages, SavedMessage)
                     /\ lastStep' = Step("confirmSettled", "saved")
             ELSE /\ scheduleConfirmed' = scheduleConfirmed
                  /\ messages' = Append(messages, SaveErrorMessage)
                  /\ lastStep' = Step("confirmSettled", "failed")
    /\ isLoading' = FALSE
    /\ call' = NoCall
    /\ UNCHANGED <<parsedSchedule, convexUserId, turns, confirms>>

\* a reset that keeps the proposed schedule
HandleStartOverKeepingSchedule ==
    /\ Len(messages) > 1
    /\ messages' = <<StartOverMessage>>
    /\ scheduleConfirmed' = FALSE
    /\ lastStep' = Step("startOver", "")
    /\ UNCHANGED <<isLoading, parsedSchedule, convexUserId, call, calendarEvents, turns, confirms>>

\* handleStartOver: the button is rendered once there is more than one message
HandleStartOver ==
    /\ Len(messages) > 1
    /\ messages' = <<StartOverMessage>>
    /\ parsedSchedule' = <<>>
    /\ scheduleConfirmed' = FALSE
    /\ lastStep' = Step("startOver", "")
    /\ UNCHANGED <<isLoading, convexUserId, call, calendarEvents, turns, confirms>>

----------------------------------------------------------------------------
(* The event store called directly: createEvent and updateEvent.  An event id is *)
(* the event's position in the table.                                            *)

MaxEvents == 2

\* lastCall: the mutation of the users, planningSessions or calendarEvents table that
\* ran last, the id it was given or returned, the arguments it looked a document up
\* by (key), whether that document existed, and whether it committed (ok) or threw
NoMutation == [op |-> "none", id |-> 0, key |-> <<>>, existed |-> FALSE, ok |-> TRUE]

\* the days events are made for: tomorrow and the day after
EventDates == {FormatDate(1), FormatDate(2)}

\* the arguments a client may pass to createEvent: date and startTime are two
\* independent strings
EventArgs ==
    {[title |-> "Lunch", description |-> Undefined,
      startTime |-> Timestamp(s, "12:00"), endTime |-> Timestamp(s, "13:00"),
      date |-> d, category |-> c, isRecurring |-> FALSE, createdBy |-> "user"] :
        s \in EventDates, d \in EventDates, c \in {"meal", "lunch"}}

\* createEvent: the arguments are validated, then the event is inserted
createEvent(table, userId, e) ==
    IF ValidEventArg(e)
       THEN [ok |-> TRUE, table |-> Append(table, InsertedEvent(userId, e))]
    ELSE [ok |-> FALSE, table |-> table]

\* the optional arguments of updateEvent a client may pass, each <<>> (undefined)
\* or <<value>>
EventUpdates ==
    {[startTime |-> st, completed |-> c] :
        st \in {<<>>, <<Timestamp(FormatDate(2), "14:00")>>},
        c \in {<<>>, <<TRUE>>}}

\* ctx.db.patch(eventId, cleanUpdates): only the members that are not undefined
PatchEvent(event, updates) ==
    [event EXCEPT !.startTime = IF updates.startTime = <<>> THEN @ ELSE updates.startTime[1],
                  !.completed = IF updates.completed = <<>> THEN @ ELSE updates.completed[1]]

\* updateEvent: ctx.db.patch throws on a document that does not exist
updateEvent(table, eventId, updates) ==
    IF eventId \in 1..Len(table)
       THEN [ok |-> TRUE, table |-> [table EXCEPT ![eventId] = PatchEvent(table[eventId], updates)]]
    ELSE [ok |-> FALSE, table |-> table]

\* the batches a client may pass to createManyEvents; the plan page passes the first kind
EventBatches ==
    {EventsToCreate(p, tomorrowDate) : p \in {<<Meditate, Standup>>, <<Walk>>}}
    \cup {<<e>> : e \in {a \in EventArgs : a.date = FormatDate(1)}}

CreateEvent ==
    /\ Len(calendarEvents) < MaxEvents
    /\ \E u \in PageUsers, e \in EventArgs :
          LET r == createEvent(calendarEvents, u, e)
          IN /\ calendarEvents' = r.table
             /\ lastCall' = [NoMutation EXCEPT !.op = "createEvent", !.ok = r.ok,
                                               !.id = IF r.ok THEN Len(r.table) ELSE 0]
    /\ UNCHANGED <<habitVars, chat, users, nextUserId, sessions, nextSessionId>>
    /\ UNCHANGED <<messages, isLoading, parsedSchedule, scheduleConfirmed, convexUserId,
                   call, turns, confirms, lastStep>>

CreateManyEvents ==
    \E u \in PageUsers, b \in EventBatches :
        /\ Len(calendarEvents) + Len(b) <= MaxEvents
        /\ LET r == createManyEvents(calendarEvents, u, b, TRUE)
           IN /\ calendarEvents' = r.table
              /\ lastCall' = [NoMutation EXCEPT !.op = "createManyEvents", !.ok = r.ok,
                                                !.id = IF r.ok THEN Len(r.table) ELSE 0]
        /\ UNCHANGED <<habitVars, chat, users, nextUserId, sessions, nextSessionId>>
        /\ UNCHANGED <<messages, isLoading, parsedSchedule, scheduleConfirmed, convexUserId,
                       call, turns, confirms, lastStep>>

UpdateEvent ==
    \E id \in 1..(Len(calendarEvents) + 1), updates \in EventUpdates :
        LET r == updateEvent(calendarEvents, id, updates)
        IN /\ calendarEvents' = r.table
           /\ lastCall' = [NoMutation EXCEPT !.op = "updateEvent", !.ok = r.ok, !.id = id,
                                             !.existed = r.ok]
           /\ UNCHANGED <<habitVars, chat, users, nextUserId, sessions, nextSessionId>>
           /\ UNCHANGED <<messages, isLoading, parsedSchedule, scheduleConfirmed, convexUserId,
                          call, turns, confirms, lastStep>>

----------------------------------------------------------------------------
(* The chat route: POST /api/chat *)

\* the identity auth() gives for a signed-in caller
ClerkUser == "clerk_u1"

\* chat: the request POST handled last: for which submit of the page (0: another
\* client), as whom, whether request.json() was called, the status of the response,
\* and the call made to the model service, <<>> or <<[system, messages]>>
NoChat == [turn |-> 0, auth |-> Null, bodyRead |-> FALSE, status |-> 0, modelCall |-> <<>>]

\* contextAddition: a section for the habits and one for the existing events, each
\* present only when the member is there and not empty
ContextAddition(body) ==
    [habits |-> IF body.habits # <<>> /\ body.habits[1] # {} THEN body.habits ELSE <<>>,
     existingEvents |-> IF body.existingEvents # <<>> /\ body.existingEvents[1] # {}
                           THEN body.existingEvents ELSE <<>>]

\* messages.map((m) => ({ role: m.role, content: m.content }))
RoleAndContent(msgs) == [i \in 1..Len(msgs) |-> [role |-> msgs[i].role, content |-> msgs[i].content]]

\* a route that has no auth check
POSTWithoutAuth(auth, body, serviceOk) ==
    IF body = <<>>
       THEN [NoChat EXCEPT !.auth = auth, !.bodyRead = TRUE, !.status = 500]
    ELSE IF body[1].messages = <<>>
       THEN [NoChat EXCEPT !.auth = auth, !.bodyRead = TRUE, !.status = 400]
    ELSE [NoChat EXCEPT !.auth = auth, !.bodyRead = TRUE,
                        !.status = IF serviceOk THEN 200 ELSE 500,
                        !.modelCall = <<[system |-> ContextAddition(body[1]),
                                         messages |-> RoleAndContent(body[1].messages[1])]>>]

\* POST: body is <<>> when request.json() throws, else <<the parsed body>>;
\* serviceOk: anthropic.messages.stream did not throw
POST(auth, body, serviceOk) ==
    IF auth = Null
       THEN [NoChat EXCEPT !.status = 401]
    ELSE IF body = <<>>
       THEN [NoChat EXCEPT !.auth = auth, !.bodyRead = TRUE, !.status = 500]
    ELSE IF body[1].messages = <<>>
       THEN [NoChat EXCEPT !.auth = auth, !.bodyRead = TRUE, !.status = 400]
    ELSE [NoChat EXCEPT !.auth = auth, !.bodyRead = TRUE,
                        !.status = IF serviceOk THEN 200 ELSE 500,
                        !.modelCall = <<[system |-> ContextAddition(body[1]),
                                         messages |-> RoleAndContent(body[1].messages[1])]>>]

\* the route handles the request of the page's outstanding handleSubmit
PagePost ==
    /\ call.kind = "submit" /\ call.phase = "fetch" /\ chat.turn # turns
    /\ \E auth \in {Null, ClerkUser}, serviceOk \in BOOLEAN :
          chat' = [POST(auth, <<call.body>>, serviceOk) EXCEPT !.turn = turns]
    /\ UNCHANGED <<habitVars, planVars, users, nextUserId, sessions, nextSessionId, lastCall>>

\* the requests of other clients: no JSON, no messages member, or a full body
DirectBodies ==
    {<<>>,
     <<[messages |-> <<>>, habits |-> <<{1}>>, existingEvents |-> <<>>]>>,
     <<[messages |-> <<<<[role |-> "user", content |-> <<"plan my day">>]>>>>,
        habits |-> <<>>, existingEvents |-> <<{"Lunch"}>>]>>}

\* the route handles a request of another client, while the page waits for nothing
DirectPost ==
    /\ call.kind = "none"
    /\ \E auth \in {Null, ClerkUser}, body \in DirectBodies, serviceOk \in BOOLEAN :
          chat' = POST(auth, body, serviceOk)
    /\ UNCHANGED <<habitVars, planVars, users, nextUserId, sessions, nextSessionId, lastCall>>

----------------------------------------------------------------------------
(* The users table *)

MaxUsers == 2

\* the ids ctx.db.insert("users") hands out, in order
UserIds == <<"u1", "u2">>

ClerkIds == {"clerk_u1", "clerk_u2"}
Emails == {"ann@example.org", "ann@example.com"}
Names == {Undefined, "Ann"}

\* .query("users").withIndex("by_clerk_id", q => q.eq("clerkId", clerkId))
UsersByClerkId(table, clerkId) == {u \in DOMAIN table : table[u].clerkId = clerkId}

\* a get-or-create that overwrites the profile of the user it finds
getOrCreateUserRefreshing(clerkId, email, name) ==
    LET found == UsersByClerkId(users, clerkId)
        args == [NoMutation EXCEPT !.op = "getOrCreateUser", !.key = <<clerkId, email, name>>]
    IN /\ found # {} \/ nextUserId <= MaxUsers
       /\ IF Cardinality(found) > 1
             THEN /\ UNCHANGED <<users, nextUserId>>
                  /\ lastCall' = [args EXCEPT !.ok = FALSE, !.existed = TRUE]
          ELSE IF found # {}
             THEN LET u == CHOOSE x \in found : TRUE
                  IN /\ users' = [users EXCEPT ![u].email = email, ![u].name = name]
                     /\ UNCHANGED nextUserId
                     /\ lastCall' = [args EXCEPT !.id = u, !.existed = TRUE]
          ELSE /\ users' = users @@ (UserIds[nextUserId] :>
                                [clerkId |-> clerkId, email |-> email, name |-> name,
                                 onboardingComplete |-> FALSE])
               /\ nextUserId' = nextUserId + 1
               /\ lastCall' = [args EXCEPT !.id = UserIds[nextUserId]]
       /\ UNCHANGED <<habitVars, planVars, chat, sessions, nextSessionId>>

\* getOrCreateUser: .unique() throws when the index holds more than one user
getOrCreateUser(clerkId, email, name) ==
    LET found == UsersByClerkId(users, clerkId)
        args == [NoMutation EXCEPT !.op = "getOrCreateUser", !.key = <<clerkId, email, name>>]
    IN /\ found # {} \/ nextUserId <= MaxUsers
       /\ IF Cardinality(found) > 1
             THEN /\ UNCHANGED <<users, nextUserId>>
                  /\ lastCall' = [args EXCEPT !.ok = FALSE, !.existed = TRUE]
          ELSE IF found # {}
             THEN /\ UNCHANGED <<users, nextUserId>>
                  /\ lastCall' = [args EXCEPT !.id = CHOOSE x \in found : TRUE, !.existed = TRUE]
          ELSE /\ users' = users @@ (UserIds[nextUserId] :>
                                [clerkId |-> clerkId, email |-> email, name |-> name,
                                 onboardingComplete |-> FALSE])
               /\ nextUserId' = nextUserId + 1
               /\ lastCall' = [args EXCEPT !.id = UserIds[nextUserId]]
       /\ UNCHANGED <<habitVars, planVars, chat, sessions, nextSessionId>>

\* completeOnboarding: throws when there is no user for clerkId
completeOnboarding(clerkId) ==
    LET found == UsersByClerkId(users, clerkId)
        args == [NoMutation EXCEPT !.op = "completeOnboarding", !.key = <<clerkId>>]
    IN /\ IF Cardinality(found) = 1
             THEN LET u == CHOOSE x \in found : TRUE
                  IN /\ users' = [users EXCEPT ![u].onboardingComplete = TRUE]
                     /\ lastCall' = [args EXCEPT !.id = u, !.existed = TRUE]
          ELSE /\ UNCHANGED users
               /\ lastCall' = [args EXCEPT !.ok = FALSE, !.existed = found # {}]
       /\ UNCHANGED <<habitVars, planVars, chat, nextUserId, sessions, nextSessionId>>

----------------------------------------------------------------------------
(* The planningSessions table *)

MaxSessions == 2
MaxMessages == 2

SessionUsers == {"u1", "u2"}
PlanningDates == {FormatDate(1), FormatDate(2)}

\* .query("planningSessions").withIndex("by_user_and_date", ...)
SessionsByUserAndDate(table, userId, planningDate) ==
    {x \in DOMAIN table : table[x].userId = userId /\ table[x].planningDate = planningDate}

\* a get-or-create that always inserts
getOrCreateSessionAlwaysInsert(userId, planningDate) ==
    LET found == SessionsByUserAndDate(sessions, userId, planningDate)
        args == [NoMutation EXCEPT !.op = "getOrCreateSession", !.key = <<userId, planningDate>>]
    IN /\ nextSessionId <= MaxSessions
       /\ sessions' = sessions @@ (nextSessionId :>
                          [userId |-> userId, planningDate |-> planningDate,
                           messages |-> <<>>, isComplete |-> FALSE])
       /\ nextSessionId' = nextSessionId + 1
       /\ lastCall' = [args EXCEPT !.id = nextSessionId, !.existed = found # {}]
       /\ UNCHANGED <<habitVars, planVars, chat, users, nextUserId>>

\* getOrCreateSession: .unique() throws when the index holds more than one session
getOrCreateSession(userId, planningDate) ==
    LET found == SessionsByUserAndDate(sessions, userId, planningDate)
        args == [NoMutation EXCEPT !.op = "getOrCreateSession", !.key = <<userId, planningDate>>]
    IN /\ found # {} \/ nextSessionId <= MaxSessions
       /\ IF Cardinality(found) > 1
             THEN /\ UNCHANGED <<sessions, nextSessionId>>
                  /\ lastCall' = [args EXCEPT !.ok = FALSE, !.existed = TRUE]
          ELSE IF found # {}
             THEN /\ UNCHANGED <<sessions, nextSessionId>>
                  /\ lastCall' = [args EXCEPT !.id = CHOOSE x \in found : TRUE, !.existed = TRUE]
          ELSE /\ sessions' = sessions @@ (nextSessionId :>
                                  [userId |-> userId, planningDate |-> planningDate,
                                   messages |-> <<>>, isComplete |-> FALSE])
               /\ nextSessionId' = nextSessionId + 1
               /\ lastCall' = [args EXCEPT !.id = nextSessionId]
       /\ UNCHANGED <<habitVars, planVars, chat, users, nextUserId>>

\* an addMessage that puts the new message first
addMessagePrepending(sessionId, role, content) ==
    LET args == [NoMutation EXCEPT !.op = "addMessage", !.id = sessionId]
    IN /\ IF sessionId \in DOMAIN sessions
             THEN /\ Len(sessions[sessionId].messages) < MaxMessages
                  /\ sessions' = [sessions EXCEPT ![sessionId].messages =
                                      <<[role |-> role, content |-> content]>> \o @]
                  /\ lastCall' = [args EXCEPT !.existed = TRUE]
          ELSE /\ UNCHANGED sessions
               /\ lastCall' = [args EXCEPT !.ok = FALSE]
       /\ UNCHANGED <<habitVars, planVars, chat, users, nextUserId, nextSessionId>>

\* addMessage: throws "Session not found" when the session does not exist
addMessage(sessionId, role, content) ==
    LET args == [NoMutation EXCEPT !.op = "addMessage", !.id = sessionId]
    IN /\ IF sessionId \in DOMAIN sessions
             THEN /\ Len(sessions[sessionId].messages) < MaxMessages
                  /\ sessions' = [sessions EXCEPT ![sessionId].messages =
                                      Append(@, [role |-> role, content |-> content])]
                  /\ lastCall' = [args EXCEPT !.existed = TRUE]
          ELSE /\ UNCHANGED sessions
               /\ lastCall' = [args EXCEPT !.ok = FALSE]
       /\ UNCHANGED <<habitVars, planVars, chat, users, nextUserId, nextSessionId>>

\* completeSession: ctx.db.patch throws on a document that does not exist
completeSession(sessionId) ==
    LET args == [NoMutation EXCEPT !.op = "completeSession", !.id = sessionId]
    IN /\ IF sessionId \in DOMAIN sessions
             THEN /\ sessions' = [sessions EXCEPT ![sessionId].isComplete = TRUE]
                  /\ lastCall' = [args EXCEPT !.existed = TRUE]
          ELSE /\ UNCHANGED sessions
               /\ lastCall' = [args EXCEPT !.ok = FALSE]
       /\ UNCHANGED <<habitVars, planVars, chat, users, nextUserId, nextSessionId>>

\* deleteSession: ctx.db.delete throws on a document that does not exist
deleteSession(sessionId) ==
    LET args == [NoMutation EXCEPT !.op = "deleteSession", !.id = sessionId]
    IN /\ IF sessionId \in DOMAIN sessions
             THEN /\ sessions' = [x \in DOMAIN sessions \ {sessionId} |-> sessions[x]]
                  /\ lastCall' = [args EXCEPT !.existed = TRUE]
          ELSE /\ UNCHANGED sessions
               /\ lastCall' = [args EXCEPT !.ok = FALSE]
       /\ UNCHANGED <<habitVars, planVars, chat, users, nextUserId, nextSessionId>>

IssuedSessionIds == 1..(nextSessionId - 1)

----------------------------------------------------------------------------
(* Specifications *)

HabitInit ==
    /\ habits = <<>>
    /\ habitLogs = EmptyBag
    /\ nextHabitId = 1
    /\ today = 0
    /\ lastOp = NoOp

\* the plan page once mounted: useState initial values, then the greeting effect
PlanIdle ==
    /\ messages = <<GreetingMessage>>
    /\ isLoading = FALSE
    /\ parsedSchedule = <<>>
    /\ scheduleConfirmed = FALSE
    /\ convexUserId = Null
    /\ call = NoCall
    /\ calendarEvents = <<>>
    /\ turns = 0
    /\ confirms = 0
    /\ lastStep = [step |-> "mount", outcome |-> ""]

\* no request handled yet, empty users and planningSessions tables
BackIdle ==
    /\ chat = NoChat
    /\ users = <<>>
    /\ nextUserId = 1
    /\ sessions = <<>>
    /\ nextSessionId = 1
    /\ lastCall = NoMutation

Init == HabitInit /\ PlanIdle /\ BackIdle

CreateHabit == \E u \in PageUsers : createHabit(u) /\ UNCHANGED <<planVars, backVars>>

UpdateHabit ==
    \E h \in IssuedHabitIds, a \in {<<>>, <<TRUE>>, <<FALSE>>} :
        updateHabit(h, a) /\ UNCHANGED <<planVars, backVars>>

DeleteHabit == \E h \in IssuedHabitIds : deleteHabit(h) /\ UNCHANGED <<planVars, backVars>>

\* the habits page calls logHabitCompletion without notes
LogHabitCompletion ==
    \E h \in IssuedHabitIds, u \in PageUsers, d \in Dates, c \in BOOLEAN :
        logHabitCompletion(h, u, d, c, Undefined) /\ UNCHANGED <<planVars, backVars>>

\* any client of the mutation: notes given or not
LogHabitCompletionWithNotes ==
    \E h \in IssuedHabitIds, u \in PageUsers, d \in Dates, c \in BOOLEAN, n \in NotesArgs :
        logHabitCompletion(h, u, d, c, n) /\ UNCHANGED <<planVars, backVars>>

Midnight == AdvanceDay /\ UNCHANGED <<planVars, backVars>>

Next ==
    \/ CreateHabit
    \/ UpdateHabit
    \/ DeleteHabit
    \/ LogHabitCompletion
    \/ Midnight

\* the habit store under every interleaving of its mutations and the clock
Spec == Init /\ [][Next]_vars

UpsertNext ==
    \/ CreateHabit
    \/ DeleteHabit
    \/ LogHabitCompletionWithNotes

\* the habit store on one day, logs written with and without notes
UpsertSpec == Init /\ [][UpsertNext]_vars

ReplayInit ==
    /\ habits = <<>>
    /\ habitLogs = EmptyBag
    /\ nextHabitId = 1
    /\ today \in 0..MaxDay
    /\ lastOp = NoOp
    /\ PlanIdle
    /\ BackIdle

ReplayNext ==
    \/ CreateHabit
    \/ LogHabitCompletion

\* several habits logged on one and the same day, whichever day it is
ReplaySpec == ReplayInit /\ [][ReplayNext]_vars

UserSynced == SyncUser /\ UNCHANGED <<habitVars, backVars>>
Submit == \E t \in UserTexts : HandleSubmit(t) /\ UNCHANGED <<habitVars, backVars>>
SubmitIgnored == \E t \in UserTexts : HandleSubmitReturns(t) /\ UNCHANGED <<habitVars, backVars>>
Response == \E r \in Replies : ResponseOk(r) /\ UNCHANGED <<habitVars, backVars>>
Chunk == \E n \in 1..MaxChunk : StreamChunk(n) /\ UNCHANGED <<habitVars, backVars>>
Done == StreamDone /\ UNCHANGED <<habitVars, backVars>>
Failed == ChatError /\ UNCHANGED <<habitVars, backVars>>
Confirm == HandleConfirmSchedule /\ UNCHANGED <<habitVars, backVars>>
Settled == \E ok \in BOOLEAN : ConfirmSettled(ok) /\ UNCHANGED <<habitVars, backVars>>
StartOver == HandleStartOver /\ UNCHANGED <<habitVars, backVars>>

PlanNext ==
    \/ UserSynced
    \/ Submit
    \/ SubmitIgnored
    \/ Response
    \/ Chunk
    \/ Done
    \/ Failed
    \/ Confirm
    \/ Settled
    \/ StartOver

\* one planning session of the plan page against the event store
PlanSpec == Init /\ [][PlanNext]_vars

EventNext ==
    \/ CreateEvent
    \/ CreateManyEvents
    \/ UpdateEvent

\* the event store under every sequence of direct calls
EventSpec == Init /\ [][EventNext]_vars

\* the response of the route arrived with response.ok
ChatResponse ==
    /\ chat.turn = turns /\ chat.status = 200
    /\ ResponseOk(<<"Sure.">>)
    /\ UNCHANGED <<habitVars, backVars>>

ChatNext ==
    \/ CreateHabit
    \/ UpdateHabit
    \/ CreateEvent
    \/ UserSynced
    \/ Submit
    \/ PagePost
    \/ DirectPost
    \/ ChatResponse
    \/ Chunk
    \/ Done
    \/ Failed

\* the plan page, the chat route and the stores the page reads
ChatSpec == Init /\ [][ChatNext]_vars

GetOrCreateUser ==
    \E c \in ClerkIds, e \in Emails, n \in Names : getOrCreateUser(c, e, n)

CompleteOnboarding == \E c \in ClerkIds : completeOnboarding(c)

UserNext ==
    \/ GetOrCreateUser
    \/ CompleteOnboarding

\* the users table under every sequence of sign-ins
UserSpec == Init /\ [][UserNext]_vars

GetOrCreateSession ==
    \E u \in SessionUsers, d \in PlanningDates : getOrCreateSession(u, d)

AddMessage ==
    \E x \in IssuedSessionIds, r \in {"user", "assistant"} : addMessage(x, r, <<"hello">>)

CompleteSession == \E x \in IssuedSessionIds : completeSession(x)

DeleteSession == \E x \in IssuedSessionIds : deleteSession(x)

SessionNext ==
    \/ GetOrCreateSession
    \/ AddMessage
    \/ CompleteSession
    \/ DeleteSession

\* the planningSessions table under every sequence of its mutations
SessionSpec == Init /\ [][SessionNext]_vars

\* the fetch resolves or rejects, the stream delivers, closes or errors, and the
\* batch insert returns or fails
PlanFairness ==
    /\ WF_vars(Response \/ Chunk \/ Done \/ Failed)
    /\ WF_vars(Settled)

\* a planning session in which every outstanding call comes to an end
PlanLiveSpec == Init /\ [][PlanNext]_vars /\ PlanFairness

\* the users of the store
Tenants == {"u1", "u2"}

\* syncUser on a client where user a is signed in: the convex user id that
\* client passes as userId from then on
SignIn(a) ==
    /\ convexUserId # a
    /\ convexUserId' = a
    /\ UNCHANGED <<messages, isLoading, parsedSchedule, scheduleConfirmed, call,
                   calendarEvents, turns, confirms, lastStep>>

TenantSignIn == \E a \in Tenants : SignIn(a) /\ UNCHANGED <<habitVars, backVars>>

\* the store calls of the signed-in user: the userId argument is the user's
\* own id, a document id is any id the store has issued
TenantCreateHabit ==
    /\ convexUserId # Null
    /\ createHabit(convexUserId)
    /\ UNCHANGED <<planVars, backVars>>

TenantLogHabitCompletion ==
    /\ convexUserId # Null
    /\ \E h \in IssuedHabitIds :
          logHabitCompletion(h, convexUserId, FormatDate(today), TRUE, Undefined)
    /\ UNCHANGED <<planVars, backVars>>

TenantUpdateHabit ==
    /\ convexUserId # Null
    /\ \E h \in IssuedHabitIds : updateHabit(h, <<FALSE>>)
    /\ UNCHANGED <<planVars, backVars>>

TenantDeleteHabit ==
    /\ convexUserId # Null
    /\ \E h \in IssuedHabitIds : deleteHabit(h)
    /\ UNCHANGED <<planVars, backVars>>

TenantCreateEvent ==
    /\ convexUserId # Null
    /\ Len(calendarEvents) < MaxEvents
    /\ \E e \in {a \in EventArgs : a.date = FormatDate(1) /\ a.category = "meal"
                                    /\ a.startTime = Timestamp(a.date, "12:00")} :
          LET r == createEvent(calendarEvents, convexUserId, e)
          IN /\ calendarEvents' = r.table
             /\ lastCall' = [NoMutation EXCEPT !.op = "createEvent", !.ok = r.ok,
                                               !.id = IF r.ok THEN Len(r.table) ELSE 0]
    /\ UNCHANGED <<habitVars, chat, users, nextUserId, sessions, nextSessionId>>
    /\ UNCHANGED <<messages, isLoading, parsedSchedule, scheduleConfirmed, convexUserId,
                   call, turns, confirms, lastStep>>

TenantUpdateEvent ==
    /\ convexUserId # Null
    /\ \E id \in 1..Len(calendarEvents) :
          LET r == updateEvent(calendarEvents, id, [startTime |-> <<>>, completed |-> <<TRUE>>])
          IN /\ calendarEvents' = r.table
             /\ lastCall' = [NoMutation EXCEPT !.op = "updateEvent", !.ok = r.ok, !.id = id,
                                               !.existed = r.ok]
    /\ UNCHANGED <<habitVars, chat, users, nextUserId, sessions, nextSessionId>>
    /\ UNCHANGED <<messages, isLoading, parsedSchedule, scheduleConfirmed, convexUserId,
                   call, turns, confirms, lastStep>>

TenantNext ==
    \/ TenantSignIn
    \/ TenantCreateHabit
    \/ TenantLogHabitCompletion
    \/ TenantUpdateHabit
    \/ TenantDeleteHabit
    \/ TenantCreateEvent
    \/ TenantUpdateEvent

\* two users' clients calling the store
TenantSpec == Init /\ [][TenantNext]_vars

----------------------------------------------------------------------------
(* Claims about the habit store *)

HasCompleted(logs, h, n) ==
    \E l \in LogsOfHabit(logs, h) : l.date = FormatDate(n) /\ l.completed

\* the number of consecutive days, counting back from day inclusive, that each
\* have a completed log
RunLength(logs, h, day) ==
    CHOOSE k \in 0..(BagCardinality(logs) + 1) :
        /\ \A j \in 0..(k - 1) : HasCompleted(logs, h, day - j)
        /\ ~HasCompleted(logs, h, day - k)

\* C1: after logHabitCompletion the habit's currentStreak is the number of
\* consecutive days, counting back from today inclusive, that each have a log with
\* completed = true.
C1_StreakIsRunEndingToday ==
    (lastOp.op = "logHabitCompletion" /\ lastOp.ok /\ lastOp.habitId \in DOMAIN habits)
        => habits[lastOp.habitId].currentStreak = RunLength(habitLogs, lastOp.habitId, today)

\* C2: every existing habit has bestStreak >= currentStreak >= 0.
C2_BestAtLeastCurrent ==
    \A h \in DOMAIN habits :
        habits[h].bestStreak >= habits[h].currentStreak /\ habits[h].currentStreak >= 0

C2_Witness ==
    \E h \in DOMAIN habits : habits[h].currentStreak >= 2 /\ ~habits[h].isActive

\* C3: no step lowers the bestStreak of a habit.
C3_BestStreakNeverDecreases ==
    [][\A h \in DOMAIN habits \cap DOMAIN habits' :
          habits'[h].bestStreak >= habits[h].bestStreak]_vars

C3_Witness ==
    \E h \in DOMAIN habits :
        /\ lastOp.op = "logHabitCompletion" /\ lastOp.habitId = h /\ lastOp.count = 1
        /\ ~lastOp.completed
        /\ habits[h].bestStreak >= 2 /\ habits[h].currentStreak < habits[h].bestStreak

\* C4: the store holds at most one log per (habitId, date); a logHabitCompletion for
\* a pair that has a log leaves the number of logs as it was, and the pair's one log
\* then carries the call's completed and notes.
C4_UpsertKeepsOneLogPerDate ==
    [][/\ \A h \in IssuedHabitIds, d \in Dates : LogCount(habitLogs', h, d) <= 1
       /\ (lastOp'.op = "logHabitCompletion" /\ lastOp'.ok) =>
             /\ \A l \in LogsOfHabitDate(habitLogs', lastOp'.habitId, lastOp'.date) :
                   l.completed = lastOp'.completed /\ l.notes = lastOp'.notes
             /\ LogCount(habitLogs', lastOp'.habitId, lastOp'.date) = 1
             /\ lastOp'.count = 1 =>
                   /\ BagCardinality(habitLogs') = BagCardinality(habitLogs)
                   /\ \A l \in BagToSet(habitLogs) :
                         (l.habitId # lastOp'.habitId \/ l.date # lastOp'.date)
                             => CopiesIn(l, habitLogs') = CopiesIn(l, habitLogs)]_vars

C4_Witness ==
    /\ lastOp.op = "logHabitCompletion" /\ lastOp.ok /\ lastOp.count = 1
    /\ lastOp.notes = "note" /\ ~lastOp.completed
    /\ BagCardinality(habitLogs) >= 2

\* C5: a deleteHabit(h) that returns leaves no habit h and no log of h, and leaves
\* the other habits and the logs of other habits as they were.
C5_DeleteCascades ==
    [][(lastOp'.op = "deleteHabit" /\ lastOp'.ok) =>
          LET h == lastOp'.habitId
          IN /\ h \notin DOMAIN habits'
             /\ LogsOfHabit(habitLogs', h) = {}
             /\ DOMAIN habits' = DOMAIN habits \ {h}
             /\ \A g \in DOMAIN habits' : habits'[g] = habits[g]
             /\ \A l \in BagToSet(habitLogs) \cup BagToSet(habitLogs') :
                   l.habitId # h => CopiesIn(l, habitLogs') = CopiesIn(l, habitLogs)]_vars

C5_Witness ==
    /\ lastOp.op = "deleteHabit" /\ lastOp.ok /\ lastOp.count >= 2
    /\ habits # <<>>
    /\ habitLogs # EmptyBag

\* what a habit's logs say: its dates and whether each was completed
LogView(h) ==
    {[date |-> l.date, completed |-> l.completed] : l \in LogsOfHabit(habitLogs, h)}

\* a fresh habit that is given the logs of view one logHabitCompletion at a time,
\* oldest date first, all on day day
RECURSIVE Replay(_, _, _, _)
Replay(view, logs, hs, day) ==
    IF view = {} THEN hs[0]
    ELSE LET first == CHOOSE l \in view : \A m \in view : ~DateLess(m.date, l.date)
             logs2 == UpsertLog(logs, 0, "replay", first.date, first.completed, Undefined)
         IN Replay(view \ {first}, logs2, updateStreak(hs, logs2, 0, day), day)

FreshHabit == (0 :> [userId |-> "replay", isActive |-> TRUE, currentStreak |-> 0, bestStreak |-> 0])

\* C6 as claimed: two habits with the same logs, recomputed on the same day, have the
\* same currentStreak and the same bestStreak, those of a replay of the logs.
C6_StreaksAreFunctionOfLogs ==
    \A a \in DOMAIN habits, b \in DOMAIN habits :
        (LogView(a) = LogView(b) /\ LogView(a) # {}) =>
            /\ habits[a].currentStreak = habits[b].currentStreak
            /\ habits[a].bestStreak = habits[b].bestStreak
            /\ habits[a].currentStreak = Replay(LogView(a), EmptyBag, FreshHabit, today).currentStreak
            /\ habits[a].bestStreak = Replay(LogView(a), EmptyBag, FreshHabit, today).bestStreak

\* C6 as amended: two habits with the same logs, recomputed on the same day, have the
\* same currentStreak, that of a replay of the logs (bestStreak is left out: it
\* depends on the history of the logs).
C6_CurrentStreakIsFunctionOfLogs ==
    \A a \in DOMAIN habits, b \in DOMAIN habits :
        (LogView(a) = LogView(b) /\ LogView(a) # {}) =>
            /\ habits[a].currentStreak = habits[b].currentStreak
            /\ habits[a].currentStreak = Replay(LogView(a), EmptyBag, FreshHabit, today).currentStreak

C6_Witness ==
    \E a \in DOMAIN habits, b \in DOMAIN habits :
        /\ LogView(a) = LogView(b) /\ LogView(a) # {}
        /\ habits[a].bestStreak > habits[b].bestStreak
        /\ habits[a].currentStreak = habits[b].currentStreak

----------------------------------------------------------------------------
(* Claims about the plan page and the event store *)

\* C7: a confirm whose batch insert succeeds appends exactly the N events of the
\* proposal, in order, each for the current user with the proposal's title, the
\* target date, and start and end times made of the target date and the proposed
\* times; the events already stored are unchanged.
C7_ConfirmCreatesTheProposedEvents ==
    [][(lastStep'.step = "confirmSettled" /\ lastStep'.outcome = "saved") =>
          LET N == Len(call.proposal)
              old == Len(calendarEvents)
          IN /\ Len(calendarEvents') = old + N
             /\ SubSeq(calendarEvents', 1, old) = calendarEvents
             /\ \A i \in 1..N :
                   LET e == calendarEvents'[old + i]
                       p == call.proposal[i]
                   IN /\ e.userId = convexUserId
                      /\ e.title = p.title
                      /\ e.date = tomorrowDate
                      /\ e.startTime = <<tomorrowDate, "T", p.startTime, ":00">>
                      /\ e.endTime = <<tomorrowDate, "T", p.endTime, ":00">>]_vars

C7_Witness ==
    /\ lastStep.step = "confirmSettled" /\ lastStep.outcome = "saved"
    /\ Len(calendarEvents) = 3
    /\ calendarEvents[3].title = "Standup+work"
    /\ calendarEvents[3].startTime = <<<<2024, 1, 31>>, "T", "09:00", ":00">>

ExpectedCategory(category) == IF category \in Categories THEN category ELSE "other"

\* C9: on confirm every proposed event whose category is absent or not one of the
\* seven categories is submitted and persisted with category other, and every
\* event created by confirm has createdBy = ai and isRecurring = false.
C9_UnknownCategoryBecomesOther ==
    /\ call.kind = "confirm" =>
          \A i \in 1..Len(call.proposal) :
              call.eventsToCreate[i].category = ExpectedCategory(call.proposal[i].category)
    /\ \A i \in 1..Len(calendarEvents) :
          /\ calendarEvents[i].createdBy = "ai"
          /\ ~calendarEvents[i].isRecurring
          /\ calendarEvents[i].category \in Categories
    /\ (lastStep.step = "confirmSettled" /\ lastStep.outcome = "saved" /\ parsedSchedule # <<>>) =>
          \A i \in 1..Len(parsedSchedule[1]) :
              calendarEvents[Len(calendarEvents) - Len(parsedSchedule[1]) + i].category
                  = ExpectedCategory(parsedSchedule[1][i].category)

\* C10: when the batch insert of a confirm fails, the events are as before, one
\* apology message is appended, the proposed schedule is as before the step and the
\* confirmed flag is false; a proposal still there is the one that was confirmed,
\* and the confirm button is enabled for it.
C10_FailedConfirmKeepsProposal ==
    [][(lastStep'.step = "confirmSettled" /\ lastStep'.outcome = "failed") =>
          /\ calendarEvents' = calendarEvents
          /\ messages' = Append(messages, SaveErrorMessage)
          /\ parsedSchedule' = parsedSchedule
          /\ ~scheduleConfirmed /\ ~scheduleConfirmed'
          /\ ~isLoading'
          /\ parsedSchedule' # <<>> =>
                /\ parsedSchedule'[1] = call.proposal
                /\ convexUserId' # Null]_vars

C10_Witness ==
    /\ lastStep.step = "confirmSettled" /\ lastStep.outcome = "failed"
    /\ parsedSchedule = <<<<Meditate, Gym>>>>
    /\ messages[Len(messages)] = SaveErrorMessage
    /\ calendarEvents = <<>>
    /\ confirms = 2

\* C11: at most one model call is outstanding: a submit while isLoading starts no
\* model call and leaves the transcript as it was; a model call starts only when
\* neither a model call nor a confirm is outstanding; and isLoading is true exactly
\* while a call is outstanding, whatever else (chunks, Start Over) happens meanwhile.
C11_OneModelCallAtATime ==
    [][/\ (isLoading /\ lastStep'.step = "submit") =>
             /\ messages' = messages
             /\ call' = call
             /\ turns' = turns
             /\ isLoading'
       /\ turns' # turns =>
             /\ call.kind = "none" /\ ~isLoading
             /\ call'.kind = "submit" /\ turns' = turns + 1
       /\ isLoading' = (call'.kind # "none")]_vars

C11_Witness ==
    /\ lastStep = Step("submit", "loading")
    /\ call.kind = "submit" /\ call.phase = "stream"
    /\ messages = <<StartOverMessage>>
    /\ isLoading

\* C12: a chunk step leaves the transcript equal to the transcript at submit time,
\* the user's message, and one assistant message holding the chunks received so far
\* in arrival order; the step adds no message and leaves the earlier messages of the
\* transcript as they were.
C12_ChunkOnlyGrowsTheAssistantMessage ==
    [][lastStep'.step = "chunk" =>
          /\ messages' = call.newMessages
                             \o <<[role |-> "assistant", content |-> call'.assistantMessage]>>
          /\ call'.assistantMessage \o call'.stream = call.assistantMessage \o call.stream
          /\ Len(messages') = Len(messages)
          /\ SubSeq(messages', 1, Len(messages') - 1) = SubSeq(messages, 1, Len(messages) - 1)]_vars

C14_StartOverResetsThePage ==
    [][lastStep'.step = "startOver" =>
          /\ messages' = <<StartOverMessage>>
          /\ StartOverMessage.role = "assistant"
          /\ parsedSchedule' = <<>>
          /\ ~scheduleConfirmed'
          /\ turns' = turns /\ call' = call /\ chat' = chat
          /\ calendarEvents' = calendarEvents]_vars

C14_Witness ==
    /\ lastStep = Step("startOver", "")
    /\ Len(calendarEvents) = 2
    /\ confirms = 1 /\ call.kind = "none"
    /\ parsedSchedule = <<>> /\ ~scheduleConfirmed

\* the YYYY-MM-DD date at the start of a timestamp
EmbeddedDate(timestamp) == timestamp[1]

\* C15: every stored calendar event's date equals the date at the start of its
\* startTime.
C15_DateMatchesStartTime ==
    \A i \in 1..Len(calendarEvents) :
        calendarEvents[i].date = EmbeddedDate(calendarEvents[i].startTime)

----------------------------------------------------------------------------
(* Claims about the stores and the chat route *)

\* C16: a logHabitCompletion for a habit that does not exist commits: the pair's
\* one log carries the call's completed value (inserted, or overwritten in place),
\* the other logs are as before, and the habits table is as before.
C16_LogForMissingHabitIsKept ==
    [][(lastOp'.op = "logHabitCompletion" /\ lastOp'.habitId \notin DOMAIN habits) =>
          LET h == lastOp'.habitId
              d == lastOp'.date
          IN /\ lastOp'.ok
             /\ habits' = habits
             /\ LogCount(habitLogs', h, d) = 1
             /\ \A l \in LogsOfHabitDate(habitLogs', h, d) : l.completed = lastOp'.completed
             /\ BagCardinality(habitLogs') =
                    BagCardinality(habitLogs) + (IF lastOp'.count = 0 THEN 1 ELSE 0)
             /\ \A l \in BagToSet(habitLogs) :
                   (l.habitId # h \/ l.date # d) => CopiesIn(l, habitLogs') = CopiesIn(l, habitLogs)]_vars

C16_Witness ==
    /\ lastOp.op = "logHabitCompletion" /\ lastOp.ok
    /\ lastOp.habitId \notin DOMAIN habits
    /\ lastOp.count = 1 /\ lastOp.completed
    /\ habits # <<>>
    /\ BagCardinality(habitLogs) >= 2

Carried(member) == IF member = <<>> THEN {} ELSE member[1]

\* the ids of the events stored for a user and a date
EventsOn(table, userId, date) ==
    {i \in 1..Len(table) : table[i].userId = userId /\ table[i].date = date}

\* C18: the request of every submit carries the transcript up to and including the
\* new user message, the user's active habits and the events stored for the target
\* date, and the model call the route makes for it carries the same three.
C18_ModelCallCarriesFullContext ==
    [][/\ (lastStep'.step = "submit" /\ turns' # turns) =>
             /\ call'.body.messages = <<messages'>>
             /\ SubSeq(messages', 1, Len(messages)) = messages
             /\ Len(messages') = Len(messages) + 1
             /\ messages'[Len(messages')].role = "user"
             /\ \A u \in PageUsers :
                   /\ Carried(call'.body.habits) = getActiveHabits(u)
                   /\ Carried(call'.body.existingEvents) = EventsOn(calendarEvents, u, tomorrowDate)
       /\ (chat'.turn # chat.turn /\ chat'.turn > 0 /\ chat'.modelCall # <<>>) =>
             /\ chat'.modelCall[1].messages = call.newMessages
             /\ Carried(chat'.modelCall[1].system.habits) = Carried(call.body.habits)
             /\ Carried(chat'.modelCall[1].system.existingEvents)
                    = Carried(call.body.existingEvents)]_vars

\* C19: the users table holds at most one user per clerkId; getOrCreateUser returns
\* the one user of its clerkId, leaving the table as it was when that user existed
\* and else adding one user; and no step removes a user or changes the clerkId,
\* email or name of one.
C19_GetOrCreateUserIsIdempotent ==
    [][/\ \A c \in ClerkIds : Cardinality(UsersByClerkId(users', c)) <= 1
       /\ \A u \in DOMAIN users :
             /\ u \in DOMAIN users'
             /\ users'[u].clerkId = users[u].clerkId
             /\ users'[u].email = users[u].email
             /\ users'[u].name = users[u].name
       /\ lastCall'.op = "getOrCreateUser" =>
             LET c == lastCall'.key[1]
                 found == UsersByClerkId(users, c)
             IN /\ lastCall'.ok
                /\ UsersByClerkId(users', c) = {lastCall'.id}
                /\ found # {} => (users' = users /\ lastCall'.id \in found)
                /\ found = {} => DOMAIN users' = DOMAIN users \cup {lastCall'.id}]_vars

C19_Witness ==
    /\ lastCall.op = "getOrCreateUser" /\ lastCall.existed /\ lastCall.ok
    /\ lastCall.id = "u1"
    /\ lastCall.key[2] # users["u1"].email
    /\ lastCall.key[3] # users["u1"].name
    /\ users["u1"].onboardingComplete
    /\ nextUserId = 3

\* C20: there is at most one session per (userId, planningDate); getOrCreateSession
\* for a pair that has a session returns it and leaves the table as it was, and for
\* a pair that has none adds one session with no messages and isComplete = false.
C20_OneSessionPerUserAndDate ==
    [][/\ \A u \in SessionUsers, d \in PlanningDates :
             Cardinality(SessionsByUserAndDate(sessions', u, d)) <= 1
       /\ lastCall'.op = "getOrCreateSession" =>
             LET u == lastCall'.key[1]
                 d == lastCall'.key[2]
                 found == SessionsByUserAndDate(sessions, u, d)
                 id == lastCall'.id
             IN /\ lastCall'.ok
                /\ found # {} => (sessions' = sessions /\ id \in found)
                /\ found = {} =>
                      /\ id \notin DOMAIN sessions
                      /\ sessions' = sessions @@ (id :> [userId |-> u, planningDate |-> d,
                                                          messages |-> <<>>, isComplete |-> FALSE])]_vars

C20_Witness ==
    /\ lastCall.op = "getOrCreateSession" /\ lastCall.existed /\ lastCall.ok
    /\ lastCall.id \in DOMAIN sessions
    /\ sessions[lastCall.id].isComplete
    /\ Len(sessions[lastCall.id].messages) = 2
    /\ 1 \notin DOMAIN sessions
    /\ lastCall.id = 2

\* C21: addMessage on a session id that does not exist fails and leaves the table
\* as it was; on an existing session it appends one message at the end of that
\* session's list and leaves the earlier messages, the session's other fields and
\* the other sessions as they were.
C21_AddMessageAppendsOrFails ==
    [][lastCall'.op = "addMessage" =>
          LET x == lastCall'.id
          IN /\ x \notin DOMAIN sessions => (~lastCall'.ok /\ sessions' = sessions)
             /\ x \in DOMAIN sessions =>
                   LET old == sessions[x].messages
                       new == sessions'[x].messages
                   IN /\ lastCall'.ok
                      /\ DOMAIN sessions' = DOMAIN sessions
                      /\ Len(new) = Len(old) + 1
                      /\ SubSeq(new, 1, Len(old)) = old
                      /\ sessions' = [sessions EXCEPT ![x].messages = new]]_vars

C21_Witness ==
    /\ lastCall.op = "addMessage" /\ lastCall.ok
    /\ lastCall.id \in DOMAIN sessions
    /\ Len(sessions[lastCall.id].messages) = 2
    /\ sessions[lastCall.id].messages[1].role = "user"
    /\ sessions[lastCall.id].messages[2].role = "assistant"
    /\ 1 \notin DOMAIN sessions

C23_StreaksChangeOnlyInOwnLog ==
    [][/\ \A h \in DOMAIN habits \cap DOMAIN habits' :
             (\/ habits'[h].currentStreak # habits[h].currentStreak
              \/ habits'[h].bestStreak # habits[h].bestStreak)
                => (lastOp'.op = "logHabitCompletion" /\ lastOp'.habitId = h /\ lastOp'.ok)
       /\ \A h \in DOMAIN habits' \ DOMAIN habits :
             /\ lastOp'.op = "createHabit" /\ lastOp'.habitId = h
             /\ habits'[h].currentStreak = 0 /\ habits'[h].bestStreak = 0]_vars

C23_Witness ==
    /\ lastOp.op = "advanceDay"
    /\ \E h \in DOMAIN habits :
          /\ habits[h].currentStreak >= 1
          /\ ComputeStreak(habitLogs, h, today) = 0
          /\ ~habits[h].isActive

----------------------------------------------------------------------------
(* More claims about the plan page *)

\* C25: the step that ends a submit or a confirm, on success and on every error
\* path, leaves isLoading false and no call outstanding, and every call that has
\* set isLoading comes to such a step, so the form is enabled again unless the
\* schedule was confirmed.
C25_EveryCallClearsLoading ==
    /\ [][lastStep'.step \in {"done", "chatError", "confirmSettled"} =>
             (~isLoading' /\ call'.kind = "none")]_vars
    /\ (isLoading ~> ~isLoading)

C25_Witness ==
    /\ lastStep = Step("confirmSettled", "failed")
    /\ ~isLoading /\ ~scheduleConfirmed
    /\ turns < MaxTurns
    /\ messages[Len(messages)] = SaveErrorMessage

\* the page as Start Over leaves it
ResetState ==
    /\ messages = <<StartOverMessage>>
    /\ parsedSchedule = <<>>
    /\ ~scheduleConfirmed

\* C26: from the state Start Over leaves, every step that is not the start of a new
\* submit leaves the transcript, the proposed schedule and the confirmed flag as
\* Start Over set them.
C26_ResetHoldsUntilNextSubmit ==
    [][(ResetState /\ turns' = turns) => ResetState']_vars

\* C28: once a confirm has succeeded no batch insert and no model call starts,
\* and the stored events stay as they are, until Start Over; a confirm starts
\* only for a schedule that is not confirmed and with no call outstanding, and
\* a successful confirm sets the confirmed flag, whatever the user did while
\* the confirm was pending.
C28_ConfirmedScheduleIsPersistedOnce ==
    [][/\ scheduleConfirmed =>
             /\ confirms' = confirms /\ turns' = turns
             /\ calendarEvents' = calendarEvents
             /\ call.kind = "none" /\ call'.kind = "none"
             /\ scheduleConfirmed' \/ lastStep'.step = "startOver"
       /\ confirms' # confirms =>
             (~scheduleConfirmed /\ ~isLoading /\ call.kind = "none")
       /\ lastStep' = Step("confirmSettled", "saved") =>
             (scheduleConfirmed' /\ ~isLoading')]_vars

C28_Witness ==
    /\ lastStep = Step("confirmSettled", "saved")
    /\ scheduleConfirmed
    /\ parsedSchedule = <<>>
    /\ messages = <<StartOverMessage, SavedMessage>>
    /\ Len(calendarEvents) > 0

\* the events of the last assistant message of a transcript that holds a valid
\* fenced block
LastValidBlock(msgs) ==
    LET valid == {i \in DOMAIN msgs : /\ msgs[i].role = "assistant"
                                      /\ Detect(msgs[i].content).outcome = "events"}
    IN IF valid = {} THEN <<>>
       ELSE <<Detect(msgs[CHOOSE i \in valid : \A j \in valid : j <= i].content).events>>

\* C29: a finished reply without a valid block leaves the proposal in place, a
\* finished reply with a valid events list replaces it, and a confirm persists
\* the events of the most recent valid block of the transcript, which Start
\* Over restarts.
C29_ConfirmPersistsLatestValidBlock ==
    [][/\ lastStep'.step = "done" =>
             LET d == Detect(call.assistantMessage)
             IN parsedSchedule' = IF d.outcome = "events" THEN <<d.events>>
                                  ELSE parsedSchedule
       /\ confirms' # confirms =>
             (<<call'.proposal>> = LastValidBlock(messages))]_vars

----------------------------------------------------------------------------
(* More claims about the stores *)

\* C27: every habit log refers to a habit that exists.
C27_NoOrphanLogs ==
    \A l \in BagToSet(habitLogs) : l.habitId \in DOMAIN habits

\* the documents of the store that belong to user b
HabitsOf(b) == [h \in {x \in DOMAIN habits : habits[x].userId = b} |-> habits[h]]

HabitLogsOf(b) == {<<l, CopiesIn(l, habitLogs)>> : l \in {x \in BagToSet(habitLogs) : x.userId = b}}

EventsOf(b) == {<<i, calendarEvents[i]>> : i \in {x \in DOMAIN calendarEvents :
                                                      calendarEvents[x].userId = b}}

DocumentsOf(b) == <<HabitsOf(b), HabitLogsOf(b), EventsOf(b)>>

\* C30: a store call of the signed-in user leaves every habit, habit log and
\* event of another user as it was, and every habit log carries the userId of
\* the owner of its habit.
C30_CallsStayWithinTheirUser ==
    /\ [](\A l \in BagToSet(habitLogs) :
              l.habitId \in DOMAIN habits => l.userId = habits[l.habitId].userId)
    /\ [][convexUserId' = convexUserId =>
             \A b \in Tenants \ {convexUserId} : DocumentsOf(b)' = DocumentsOf(b)]_vars

====
